---------------------------- MODULE Spec2Model ----------------------------
(***************************************************************************)
(* A model of pycln/utils/astu.py: the AST collectors (ImportAnalyzer,     *)
(* SourceAnalyzer), the Importable-Names Resolver (ImportablesAnalyzer),   *)
(* the Side-Effect Classifier (SideEffectsAnalyzer), the wildcard expander *)
(* (expand_import_star) and the placeholder pruner (remove_useless_passes).*)
(*                                                                         *)
(* A syntax tree is a nested record [kind, id, aux, kids]: kids lists the  *)
(* child nodes in the order ast.iter_fields / ast.iter_child_nodes yields  *)
(* them.  A node object is identified by the path of child indices that    *)
(* leads to it from the root of the tree it was parsed into (Python        *)
(* compares and hashes AST nodes by object identity).                      *)
(***************************************************************************)
EXTENDS Integers, Sequences, FiniteSets, TLC

VARIABLES
    \* --- collectors and Side-Effect Classifier (SpecSE) ---
    se_tree,      \* T1, the tree handed to the first visit
    se_root2,     \* T2, the node handed to the second visit (a node id)
    se_pc,        \* position of the driver: visit, reset, visit again
    reused,       \* the reused SideEffectsAnalyzer object
    fresh,        \* a freshly constructed SideEffectsAnalyzer
    ia_stats,     \* ImportAnalyzer.__stats
    sa_stats,     \* SourceAnalyzer.__stats
    \* --- Placeholder Pruner (SpecPrune) ---
    pr_input,     \* the line list handed to the first run
    source_lines, \* the list remove_useless_passes mutates and returns
    pr_first,     \* the list as the first run returned it
    pr_pc,        \* "run1", "run2", "done"
    pr_error,     \* the exception the last run raised, or "none"
    \* --- Importable-Names Resolver and wildcard expander (SpecImp) ---
    fs,           \* the importing file's surroundings: the target files
    mode,         \* "visit": analyzer.visit(tree); "expand": expand_import_star
    node,         \* the ast.ImportFrom statement handed to expand_import_star
    node0,        \* that statement as it was when the call was made
    stack,        \* the active expand_import_star / analyzer.visit calls
    importables,  \* the set the outermost call obtained / get_stats()
    ex_pc,        \* "call", "run", "done"
    outcome       \* how the outermost call ended

seVars == <<se_tree, se_root2, se_pc, reused, fresh, ia_stats, sa_stats>>
prVars == <<pr_input, source_lines, pr_first, pr_pc, pr_error>>
exVars == <<fs, mode, node, node0, stack, importables, ex_pc, outcome>>
vars == <<seVars, prVars, exVars>>

-----------------------------------------------------------------------------
(* Constants of astu.py.                                                   *)
STAR == "*"
EMPTY == ""

-----------------------------------------------------------------------------
(* Syntax trees.                                                           *)

Node(kind, id, aux, kids) == [kind |-> kind, id |-> id, aux |-> aux, kids |-> kids]

SeqsOf(S, lo, hi) == UNION {[1..k -> S] : k \in lo..hi}

RECURSIVE NodeAt(_, _)
NodeAt(t, p) == IF p = <<>> THEN t ELSE NodeAt(t.kids[Head(p)], Tail(p))

\* ast.iter_child_nodes(node), as paths.
ChildPaths(t, p) == [i \in 1..Len(NodeAt(t, p).kids) |-> Append(p, i)]

RECURSIVE Paths(_)
Paths(t) == {<<>>} \cup UNION {{<<i>> \o p : p \in Paths(t.kids[i])} : i \in 1..Len(t.kids)}

IsPrefix(p, q) == Len(p) <= Len(q) /\ SubSeq(q, 1, Len(p)) = p

Range(s) == {s[i] : i \in 1..Len(s)}

\* Statement and expression constructors.
Alias(name, asname) == Node("alias", name, asname, <<>>)
NameNode(id, ctx) == Node("Name", id, ctx, <<>>)
Attribute(value, attr) == Node("Attribute", attr, "Load", <<value>>)
Call(func, args) == Node("Call", "", "", <<func>> \o args)
ExprStmt(value) == Node("Expr", "", "", <<value>>)
Import(names) == Node("Import", "", "", [i \in 1..Len(names) |-> Alias(names[i], "")])
ImportFrom(module, names) ==
    Node("ImportFrom", module, "", [i \in 1..Len(names) |-> Alias(names[i], "")])
Arguments == Node("arguments", "", "", <<>>)
FunctionDef(name, body) == Node("FunctionDef", name, "", <<Arguments>> \o body)
ClassDef(name, body) == Node("ClassDef", name, "", body)
If(body) == Node("If", "", "", <<NameNode("x", "Load")>> \o body)
Module(body) == Node("Module", "", "", body)


-----------------------------------------------------------------------------
(* The registries of pathu, consulted by the Side-Effect Classifier: the   *)
(* names of the standard library, and the modules whose import always has  *)
(* side effects.                                                           *)
get_standard_lib_names == {"os"}
IMPORTS_WITH_SIDE_EFFECTS == {"ctypes"}

\* The module names the modelled sources import: one of each registry and
\* one of neither.
ModuleNames == {"os", "ctypes", "foo"}

-----------------------------------------------------------------------------
(* The trees handed to the collectors and the classifier.                  *)

MaxAliases == 2

\* g()  and  m.h(g())
CallPlain == Call(NameNode("g", "Load"), <<>>)
CallNested == Call(Attribute(NameNode("m", "Load"), "h"), <<CallPlain>>)

\* Statements without a body; an import names up to n modules.
SimpleStmts(n) ==
    {ExprStmt(CallPlain), ExprStmt(CallNested)}
    \cup {Import(ns) : ns \in SeqsOf(ModuleNames, 1, n)}
    \cup {ImportFrom(m, <<a>>) : m \in ModuleNames, a \in ModuleNames}

CompoundStmts(n) ==
    {FunctionDef("f", <<s>>) : s \in SimpleStmts(n)}
    \cup {ClassDef("C", <<s>>) : s \in SimpleStmts(n)}
    \cup {If(<<s>>) : s \in SimpleStmts(n)}
    \cup {FunctionDef("f", <<If(<<s>>)>>) : s \in SimpleStmts(n)}

\* A module of one statement, or of two of which one at least is simple.
SETrees(n) ==
    {Module(<<s>>) : s \in SimpleStmts(n) \cup CompoundStmts(n)}
    \cup {Module(<<s, t>>) : s \in SimpleStmts(n), t \in SimpleStmts(n) \cup CompoundStmts(n)}
    \cup {Module(<<t, s>>) : s \in SimpleStmts(n), t \in CompoundStmts(n)}

\* A node id is <<tree>> \o path.  Tree 1 is T1; tree 2 is a second parse of
\* the same source, whose node objects are all new.
SENode(n) == NodeAt(se_tree, Tail(n))
SEChildIds(n) == [i \in 1..Len(SENode(n).kids) |-> Append(n, i)]
SENodeIds(tid) == {<<tid>> \o p : p \in Paths(se_tree)}

-----------------------------------------------------------------------------
(* ImportAnalyzer.                                                         *)

ImportStats(import_, from_) == [import_ |-> import_, from_ |-> from_]

ImportAnalyzer_init == ImportStats({}, {})

\* visit_Import / visit_ImportFrom, each followed by generic_visit; the
\* default generic_visit reaches every descendant of n.
ImportAnalyzer_visit(stats, n) ==
    LET below == {<<n[1]>> \o p : p \in {q \in Paths(se_tree) : IsPrefix(Tail(n), q)}}
    IN  ImportStats(stats.import_ \cup {m \in below : SENode(m).kind = "Import"},
                    stats.from_ \cup {m \in below : SENode(m).kind = "ImportFrom"})

ImportAnalyzer_reset_stats(stats) == ImportStats({}, {})

-----------------------------------------------------------------------------
(* SourceAnalyzer.                                                         *)

SourceStats(name_, attr_) == [name_ |-> name_, attr_ |-> attr_]

SourceAnalyzer_init == SourceStats({}, {})

\* visit_Name adds node.id, visit_Attribute adds node.attr.
SourceAnalyzer_visit(stats, n) ==
    LET below == {<<n[1]>> \o p : p \in {q \in Paths(se_tree) : IsPrefix(Tail(n), q)}}
    IN  SourceStats(stats.name_ \cup {SENode(m).id : m \in {k \in below : SENode(k).kind = "Name"}},
                    stats.attr_ \cup {SENode(m).id : m \in {k \in below : SENode(k).kind = "Attribute"}})

SourceAnalyzer_reset_stats(stats) == SourceStats({}, {})

-----------------------------------------------------------------------------
(* SideEffectsAnalyzer.  An analyzer object is a record: its two private   *)
(* fields, and todo, the nodes its pending visit calls will still reach,   *)
(* in the order they will be visited.                                      *)

HasSideEffects == {"YES", "MAYBE", "NO", "NOT_KNOWN"}

SideEffectsAnalyzer_init ==
    [not_side_effect |-> {}, has_side_effects |-> "NO", todo |-> <<>>]

\* generic_visit (the override): the verdict is read once, on entry; the
\* children are then all visited, whatever the verdict becomes meanwhile.
SideEffects_generic_visit(a, n) ==
    IF a.has_side_effects # "YES"
    THEN [a EXCEPT !.todo = SEChildIds(n) \o a.todo]
    ELSE a

\* The Expr children of a function or class whose value is a Call.
CallStatementValues(n) ==
    {Append(Append(n, i), 1) :
        i \in {j \in 1..Len(SENode(n).kids) :
                 /\ SENode(n).kids[j].kind = "Expr"
                 /\ SENode(n).kids[j].kids[1].kind = "Call"}}

SideEffects_visit_FunctionDef(a, n) ==
    SideEffects_generic_visit(
        [a EXCEPT !.not_side_effect = @ \cup CallStatementValues(n)], n)

SideEffects_visit_ClassDef(a, n) ==
    SideEffects_generic_visit(
        [a EXCEPT !.not_side_effect = @ \cup CallStatementValues(n)], n)

SideEffects_visit_Call(a, n) ==
    SideEffects_generic_visit(
        IF n \notin a.not_side_effect THEN [a EXCEPT !.has_side_effects = "YES"] ELSE a, n)

\* The loop over node.names of visit_Import and visit_ImportFrom: continue
\* on a standard name, break on a side-effect name, MAYBE otherwise.
RECURSIVE AliasLoop(_, _)
AliasLoop(verdict, names) ==
    IF names = <<>> THEN verdict
    ELSE IF Head(names).id \in get_standard_lib_names THEN AliasLoop(verdict, Tail(names))
    ELSE IF Head(names).id \in IMPORTS_WITH_SIDE_EFFECTS THEN "YES"
    ELSE AliasLoop("MAYBE", Tail(names))

SideEffects_visit_Import(a, n) ==
    SideEffects_generic_visit(
        [a EXCEPT !.has_side_effects = AliasLoop(@, SENode(n).kids)], n)

SideEffects_visit_ImportFrom(a, n) ==
    SideEffects_generic_visit(
        [a EXCEPT !.has_side_effects = AliasLoop(@, SENode(n).kids)], n)

\* NodeVisitor.visit: dispatch on the node's class.
SideEffects_visit(a, n) ==
    LET k == SENode(n).kind IN
    CASE k = "FunctionDef" -> SideEffects_visit_FunctionDef(a, n)
      [] k = "ClassDef" -> SideEffects_visit_ClassDef(a, n)
      [] k = "Call" -> SideEffects_visit_Call(a, n)
      [] k = "Import" -> SideEffects_visit_Import(a, n)
      [] k = "ImportFrom" -> SideEffects_visit_ImportFrom(a, n)
      [] OTHER -> SideEffects_generic_visit(a, n)

\* One step of a traversal: the next pending visit call runs.
SideEffects_step(a) == SideEffects_visit([a EXCEPT !.todo = Tail(@)], Head(a.todo))

SideEffects_reset(a) == [a EXCEPT !.has_side_effects = "NO"]

-----------------------------------------------------------------------------
(* SpecSE: each collector visits T1, is reset, and visits T2; a fresh      *)
(* SideEffectsAnalyzer visits T2 as well.                                  *)

PrIdle ==
    /\ pr_input = <<>> /\ source_lines = <<>> /\ pr_first = <<>>
    /\ pr_pc = "idle" /\ pr_error = "none"

ExIdle ==
    /\ fs = <<>> /\ mode = "idle" /\ node = <<>> /\ node0 = <<>> /\ stack = <<>>
    /\ importables = {} /\ ex_pc = "idle" /\ outcome = "none"

SeIdle ==
    /\ se_tree = <<>> /\ se_root2 = <<>> /\ se_pc = "idle"
    /\ reused = <<>> /\ fresh = <<>> /\ ia_stats = <<>> /\ sa_stats = <<>>

InitSE ==
    /\ se_tree \in SETrees(MaxAliases)
    /\ se_root2 = <<>>
    /\ se_pc = "ia_visit1"
    /\ reused = SideEffectsAnalyzer_init
    /\ fresh = SideEffectsAnalyzer_init
    /\ ia_stats = ImportAnalyzer_init
    /\ sa_stats = SourceAnalyzer_init
    /\ PrIdle /\ ExIdle

\* The nodes a second visit may be given: any node of T1, or the root of a
\* second parse.
SecondRoots == SENodeIds(1) \cup {<<2>>}

ImportAnalyzerVisit1 ==
    /\ se_pc = "ia_visit1"
    /\ ia_stats' = ImportAnalyzer_visit(ia_stats, <<1>>)
    /\ se_pc' = "sa_visit1"
    /\ UNCHANGED <<se_tree, se_root2, reused, fresh, sa_stats, prVars, exVars>>

SourceAnalyzerVisit1 ==
    /\ se_pc = "sa_visit1"
    /\ sa_stats' = SourceAnalyzer_visit(sa_stats, <<1>>)
    /\ se_pc' = "se_visit1"
    /\ reused' = [reused EXCEPT !.todo = <<(<<1>>)>>]
    /\ UNCHANGED <<se_tree, se_root2, fresh, ia_stats, prVars, exVars>>

SideEffectsStep1 ==
    /\ se_pc = "se_visit1"
    /\ reused.todo # <<>>
    /\ reused' = SideEffects_step(reused)
    /\ UNCHANGED <<se_tree, se_root2, se_pc, fresh, ia_stats, sa_stats, prVars, exVars>>

SideEffectsDone1 ==
    /\ se_pc = "se_visit1"
    /\ reused.todo = <<>>
    /\ se_pc' = "ia_reset"
    /\ UNCHANGED <<se_tree, se_root2, reused, fresh, ia_stats, sa_stats, prVars, exVars>>

ImportAnalyzerReset ==
    /\ se_pc = "ia_reset"
    /\ ia_stats' = ImportAnalyzer_reset_stats(ia_stats)
    /\ se_pc' = "sa_reset"
    /\ UNCHANGED <<se_tree, se_root2, reused, fresh, sa_stats, prVars, exVars>>

SourceAnalyzerReset ==
    /\ se_pc = "sa_reset"
    /\ sa_stats' = SourceAnalyzer_reset_stats(sa_stats)
    /\ se_pc' = "se_reset"
    /\ UNCHANGED <<se_tree, se_root2, reused, fresh, ia_stats, prVars, exVars>>

SideEffectsReset ==
    /\ se_pc = "se_reset"
    /\ reused' = SideEffects_reset(reused)
    /\ se_pc' = "ia_visit2"
    /\ UNCHANGED <<se_tree, se_root2, fresh, ia_stats, sa_stats, prVars, exVars>>

ImportAnalyzerVisit2 ==
    /\ se_pc = "ia_visit2"
    /\ \E r \in SecondRoots :
        /\ se_root2' = r
        /\ ia_stats' = ImportAnalyzer_visit(ia_stats, r)
    /\ se_pc' = "sa_visit2"
    /\ UNCHANGED <<se_tree, reused, fresh, sa_stats, prVars, exVars>>

SourceAnalyzerVisit2 ==
    /\ se_pc = "sa_visit2"
    /\ sa_stats' = SourceAnalyzer_visit(sa_stats, se_root2)
    /\ se_pc' = "se_visit2"
    /\ reused' = [reused EXCEPT !.todo = <<se_root2>>]
    /\ UNCHANGED <<se_tree, se_root2, fresh, ia_stats, prVars, exVars>>

SideEffectsStep2 ==
    /\ se_pc = "se_visit2"
    /\ reused.todo # <<>>
    /\ reused' = SideEffects_step(reused)
    /\ UNCHANGED <<se_tree, se_root2, se_pc, fresh, ia_stats, sa_stats, prVars, exVars>>

SideEffectsDone2 ==
    /\ se_pc = "se_visit2"
    /\ reused.todo = <<>>
    /\ se_pc' = "fresh_visit2"
    /\ fresh' = [SideEffectsAnalyzer_init EXCEPT !.todo = <<se_root2>>]
    /\ UNCHANGED <<se_tree, se_root2, reused, ia_stats, sa_stats, prVars, exVars>>

FreshStep ==
    /\ se_pc = "fresh_visit2"
    /\ fresh.todo # <<>>
    /\ fresh' = SideEffects_step(fresh)
    /\ UNCHANGED <<se_tree, se_root2, se_pc, reused, ia_stats, sa_stats, prVars, exVars>>

FreshDone ==
    /\ se_pc = "fresh_visit2"
    /\ fresh.todo = <<>>
    /\ se_pc' = "done"
    /\ UNCHANGED <<se_tree, se_root2, reused, fresh, ia_stats, sa_stats, prVars, exVars>>

NextSE ==
    \/ ImportAnalyzerVisit1
    \/ SourceAnalyzerVisit1
    \/ SideEffectsStep1
    \/ SideEffectsDone1
    \/ ImportAnalyzerReset
    \/ SourceAnalyzerReset
    \/ SideEffectsReset
    \/ ImportAnalyzerVisit2
    \/ SourceAnalyzerVisit2
    \/ SideEffectsStep2
    \/ SideEffectsDone2
    \/ FreshStep
    \/ FreshDone

SpecSE == InitSE /\ [][NextSE]_vars

-----------------------------------------------------------------------------
(* Claims about the Side-Effect Classifier and the collectors.             *)

\* The order NO < MAYBE < YES of the verdicts.
Rank(v) == CASE v = "NO" -> 0 [] v = "MAYBE" -> 1 [] v = "YES" -> 2 [] OTHER -> -1

Visit1Over == se_pc \in {"ia_reset", "sa_reset", "se_reset"}

NodesOfKind(kinds) == {p \in Paths(se_tree) : NodeAt(se_tree, p).kind \in kinds}

Parent(p) == SubSeq(p, 1, Len(p) - 1)

\* The Call nodes that are the value of an expression statement.
CallStatements ==
    {p \in NodesOfKind({"Call"}) : NodeAt(se_tree, Parent(p)).kind = "Expr"}

\* Those whose statement is a direct child of a function or class body.
DefCallStatements ==
    {p \in CallStatements :
        NodeAt(se_tree, Parent(Parent(p))).kind \in {"FunctionDef", "ClassDef"}}

\* C1: during one traversal the verdict never decreases in the order
\* NO < MAYBE < YES; in particular once it is YES it stays YES at every
\* later step of that traversal.
C1_VerdictNeverDecreases ==
    [][(se_pc = "se_visit1" /\ se_pc' = "se_visit1")
         => Rank(reused'.has_side_effects) >= Rank(reused.has_side_effects)]_vars

\* The module names the import and from-import statements of T1 name.
ImportedModules ==
    UNION {{a.id : a \in Range(NodeAt(se_tree, p).kids)} : p \in NodesOfKind({"Import"})}
    \cup {NodeAt(se_tree, p).id : p \in NodesOfKind({"ImportFrom"})}

VerdictOfModules(ms) ==
    IF ms \cap IMPORTS_WITH_SIDE_EFFECTS # {} THEN "YES"
    ELSE IF ms \ get_standard_lib_names # {} THEN "MAYBE"
    ELSE "NO"

\* C7: for a tree with no call expression the final verdict is a function
\* of the set of imported module names: YES if one is a side-effect module,
\* else MAYBE if one is in neither registry, else NO.
C7_VerdictFromModuleSet ==
    (Visit1Over /\ NodesOfKind({"Call"}) = {})
        => reused.has_side_effects = VerdictOfModules(ImportedModules)

\* C8: visit T1, reset, visit T2 gives each collector the result a fresh
\* collector gets for T2.
C8_ResetEqualsFresh ==
    se_pc = "done" =>
        /\ reused.has_side_effects = fresh.has_side_effects
        /\ ia_stats = ImportAnalyzer_visit(ImportAnalyzer_init, se_root2)
        /\ sa_stats = SourceAnalyzer_visit(SourceAnalyzer_init, se_root2)

\* C9: a tree without imports whose calls all sit inside call statements
\* that are direct children of a function or class body gets NO; a tree with
\* a call statement at module level or in a control-flow block gets at
\* least MAYBE.
C9_CallStatementRule ==
    Visit1Over =>
        /\ ( /\ NodesOfKind({"Import", "ImportFrom"}) = {}
             /\ \A c \in NodesOfKind({"Call"}) : \E d \in DefCallStatements : IsPrefix(d, c) )
           => reused.has_side_effects = "NO"
        /\ (\E c \in CallStatements :
                NodeAt(se_tree, Parent(Parent(c))).kind \in {"Module", "If"})
           => Rank(reused.has_side_effects) >= Rank("MAYBE")

-----------------------------------------------------------------------------
(* Placeholder Pruner.  A line of source is [ind, tok]: its indentation    *)
(* level and its text, one of "pass", "stmt" (any other simple statement), *)
(* the headers "if:", "try:" and the clause headers "else:", "except:",    *)
(* "finally:".  A blanked list entry is the string EMPTY, which holds no   *)
(* line at all.                                                            *)

Line(ind, tok) == [ind |-> ind, tok |-> tok]
EmptyLine == Line(0, EMPTY)
NonEmpty(l) == l.tok # EMPTY

\* EMPTY.join(source_lines): the lines of the text that is parsed.
Joined(lines) == SelectSeq(lines, NonEmpty)

Stmt(kind, lineno, body, handlers, orelse, finalbody) ==
    [kind |-> kind, lineno |-> lineno, body |-> body, handlers |-> handlers,
     orelse |-> orelse, finalbody |-> finalbody]

ClauseToks == {"else:", "except:", "finally:"}

Parsed(nodes, next) == [ok |-> TRUE, nodes |-> nodes, next |-> next]
SyntaxError == [ok |-> FALSE, nodes |-> <<>>, next |-> 0]

At(ls, i, ind, tok) == i <= Len(ls) /\ ls[i].ind = ind /\ ls[i].tok = tok

\* ast.parse on the joined text: statements of one block share an
\* indentation; a header is followed by a deeper, non-empty block.
RECURSIVE ParseBlock(_, _, _)
RECURSIVE ParseStmt(_, _, _)
RECURSIVE ParseHandlers(_, _, _)

\* The one element of a singleton: {F(x) : x \in {e}} binds the value of e
\* to x, so that a sub-result is computed once.
Only(S) == CHOOSE x \in S : TRUE

NonEmptySuite(b) == IF b.ok /\ b.nodes # <<>> THEN b ELSE SyntaxError

ParseSuite(ls, i, ind) == Only({NonEmptySuite(b) : b \in {ParseBlock(ls, i, ind)}})

ParseBlock(ls, i, ind) ==
    IF i > Len(ls) \/ ls[i].ind < ind \/ (ls[i].ind = ind /\ ls[i].tok \in ClauseToks)
    THEN Parsed(<<>>, i)
    ELSE IF ls[i].ind > ind THEN SyntaxError
    ELSE Only(UNION {
            {IF r.ok THEN Parsed(s.nodes \o r.nodes, r.next) ELSE SyntaxError :
                r \in {IF s.ok THEN ParseBlock(ls, s.next, ind) ELSE SyntaxError}} :
            s \in {ParseStmt(ls, i, ind)}})

ParseHandlers(ls, i, ind) ==
    IF ~At(ls, i, ind, "except:") THEN Parsed(<<>>, i)
    ELSE Only(UNION {
            {IF r.ok
             THEN Parsed(<<Stmt("ExceptHandler", i, b.nodes, <<>>, <<>>, <<>>)>> \o r.nodes,
                         r.next)
             ELSE SyntaxError :
                r \in {IF b.ok THEN ParseHandlers(ls, b.next, ind) ELSE SyntaxError}} :
            b \in {ParseSuite(ls, i + 1, ind + 1)}})

\* The optional clause tok at position i: its suite, or nothing.
ParseClause(ls, i, ind, tok, allowed) ==
    IF allowed /\ At(ls, i, ind, tok) THEN ParseSuite(ls, i + 1, ind + 1) ELSE Parsed(<<>>, i)

IfStmt(i, b, e) ==
    IF ~b.ok \/ ~e.ok THEN SyntaxError
    ELSE Parsed(<<Stmt("If", i, b.nodes, <<>>, e.nodes, <<>>)>>, e.next)

TryStmt(i, b, h, e, f) ==
    IF ~b.ok \/ ~h.ok \/ ~e.ok \/ ~f.ok \/ (h.nodes = <<>> /\ f.nodes = <<>>)
    THEN SyntaxError
    ELSE Parsed(<<Stmt("Try", i, b.nodes, h.nodes, e.nodes, f.nodes)>>, f.next)

ParseStmt(ls, i, ind) ==
    CASE ls[i].tok = "pass" -> Parsed(<<Stmt("Pass", i, <<>>, <<>>, <<>>, <<>>)>>, i + 1)
      [] ls[i].tok = "stmt" -> Parsed(<<Stmt("Expr", i, <<>>, <<>>, <<>>, <<>>)>>, i + 1)
      [] ls[i].tok = "if:" ->
            Only(UNION {
                {IfStmt(i, b, e) : e \in {ParseClause(ls, b.next, ind, "else:", b.ok)}} :
                b \in {ParseSuite(ls, i + 1, ind + 1)}})
      [] ls[i].tok = "try:" ->
            Only(UNION { UNION { UNION {
                {TryStmt(i, b, h, e, f) :
                    f \in {ParseClause(ls, e.next, ind, "finally:", e.ok)}} :
                    e \in {ParseClause(ls, h.next, ind, "else:", h.ok /\ h.nodes # <<>>)}} :
                    h \in {IF b.ok THEN ParseHandlers(ls, b.next, ind) ELSE SyntaxError}} :
                    b \in {ParseSuite(ls, i + 1, ind + 1)}})
      [] OTHER -> SyntaxError

ModuleOf(ls, b) ==
    IF b.ok /\ b.next = Len(ls) + 1
    THEN Parsed(<<Stmt("Module", 0, b.nodes, <<>>, <<>>, <<>>)>>, b.next)
    ELSE SyntaxError

\* ast.parse(EMPTY.join(source_lines)): the Module, or SyntaxError.
Parse(lines) ==
    Only(UNION {{ModuleOf(ls, b) : b \in {ParseBlock(ls, 1, 0)}} : ls \in {Joined(lines)}})

\* ast.iter_child_nodes, in the order of the node's fields.
iter_child_nodes(n) == n.body \o n.handlers \o n.orelse \o n.finalbody

\* ast.walk: every node of the tree.
RECURSIVE walk(_)
walk(n) == {n} \cup UNION {walk(c) : c \in Range(iter_child_nodes(n))}

\* The loop over the children of one parent: the line numbers it blanks.
RECURSIVE PassLoop(_, _)
PassLoop(children, body_len) ==
    IF children = <<>> THEN {}
    ELSE IF Head(children).kind = "Pass" /\ body_len > 1
         THEN {Head(children).lineno} \cup PassLoop(Tail(children), body_len - 1)
         ELSE PassLoop(Tail(children), body_len)

\* The line numbers the loop over ast.walk(tree) blanks (the assignments of
\* EMPTY of different parents do not interfere).
BlankedLinenos(tree) ==
    UNION {IF n.body # <<>> THEN PassLoop(iter_child_nodes(n), Len(n.body)) ELSE {} :
             n \in walk(tree)}

\* The list after the loop: the entries at the blanked line numbers are
\* EMPTY.
Blank(lines, linenos) ==
    [i \in 1..Len(lines) |-> IF i \in linenos THEN EmptyLine ELSE lines[i]]

PruneParsed(lines, t) ==
    IF ~t.ok THEN [error |-> "SyntaxError", lines |-> lines]
    ELSE Only({[error |-> "none", lines |-> Blank(lines, bl)] :
                  bl \in {BlankedLinenos(t.nodes[1])}})

\* remove_useless_passes: line numbers count the lines of the joined text
\* and index the list.
remove_useless_passes(lines) == Only({PruneParsed(lines, t) : t \in {Parse(lines)}})

-----------------------------------------------------------------------------
(* SpecPrune: the pruner runs on a line list read from a file, then on its *)
(* own output.                                                             *)

MaxBlock == 2

SimpleToks == {"pass", "stmt"}

\* A block of lo to hi simple statements at one indentation.
Blocks(ind, lo, hi) == {[i \in 1..Len(b) |-> Line(ind, b[i])] : b \in SeqsOf(SimpleToks, lo, hi)}

Clause(tok, block) == IF block = <<>> THEN <<>> ELSE <<Line(0, tok)>> \o block

IfSources(hi) ==
    {<<Line(0, "if:")>> \o b \o Clause("else:", e) : b \in Blocks(1, 1, hi), e \in Blocks(1, 0, hi)}

TrySources(hi) ==
    {<<Line(0, "try:")>> \o b \o Clause("except:", h) \o Clause("else:", e) \o Clause("finally:", f) :
        b \in Blocks(1, 1, hi), h \in Blocks(1, 0, hi),
        e \in Blocks(1, 0, hi), f \in Blocks(1, 0, hi)}

\* A compound statement, possibly after one simple statement; only texts
\* that parse are source files.
PruneInputs(hi) ==
    {src \in {pre \o c : pre \in Blocks(0, 0, hi), c \in IfSources(hi) \cup TrySources(hi)} :
        Len(src) >= 2 /\ Parse(src).ok}

InitPrune ==
    /\ pr_input \in PruneInputs(MaxBlock)
    /\ source_lines = pr_input
    /\ pr_first = <<>>
    /\ pr_pc = "run1"
    /\ pr_error = "none"
    /\ SeIdle /\ ExIdle

FirstRun ==
    /\ pr_pc = "run1"
    /\ \E r \in {remove_useless_passes(source_lines)} :
        /\ source_lines' = r.lines
        /\ pr_first' = r.lines
        /\ pr_error' = r.error
    /\ pr_pc' = "run2"
    /\ UNCHANGED <<pr_input, seVars, exVars>>

SecondRun ==
    /\ pr_pc = "run2"
    /\ \E r \in {remove_useless_passes(source_lines)} :
        /\ source_lines' = r.lines
        /\ pr_error' = r.error
    /\ pr_pc' = "done"
    /\ UNCHANGED <<pr_input, pr_first, seVars, exVars>>

NextPrune == FirstRun \/ SecondRun

SpecPrune == InitPrune /\ [][NextPrune]_vars

\* The statement blocks of a tree: each non-empty statement list of a node.
BlocksOf(tree) ==
    UNION {{n.body, n.orelse, n.finalbody} : n \in walk(tree)} \ {<<>>}

\* C2: every statement block of the input still holds a statement whose
\* line is not blanked after pruning; in particular a pass that is alone in
\* its block is kept.
C2_BlocksStayNonEmpty ==
    pr_pc = "run2" =>
        \A b \in BlocksOf(Parse(pr_input).nodes[1]) :
            \E i \in 1..Len(b) : source_lines[b[i].lineno] # EmptyLine

\* C3: pruning the output of the pruner completes and changes nothing.
C3_Idempotent ==
    pr_pc = "done" => (pr_error = "none" /\ source_lines = pr_first)

-----------------------------------------------------------------------------
(* The surroundings of the importing file: what pathu resolves a module    *)
(* name to, which files can be read and parsed, and what importlib finds   *)
(* for a module without source.                                            *)

Source == "main.py"
NoPath == ""

\* Modules with a source file beside the importing file.
SourceModules == {"a", "b", "locked", "broken"}
\* Modules without source: a C library, a name find_spec does not know, and
\* a module whose loader creates no module object.
NoSourceModules == {"clib", "ghost", "inert"}
AllModules == SourceModules \cup NoSourceModules

\* pathu.get_import_from_path(source, STAR, module, level): the modules sit
\* beside the importing file, so the level does not change the result.
get_import_from_path(source, module, level) ==
    CASE module = "a" -> "a.py"
      [] module = "b" -> "b.py"
      [] module = "locked" -> "locked.py"
      [] module = "broken" -> "broken.py"
      [] OTHER -> NoPath

\* os.access(source, os.R_OK)
Readable == {"a.py", "b.py", "broken.py"}
\* The files ast.parse accepts.
Parsable == {"a.py", "b.py"}

\* The one name each source file defines itself.
OwnName(path) == IF path = "a.py" THEN "fa" ELSE "fb"

StarImport(module) == Node("ImportFrom", module, "", <<Alias(STAR, "")>>)

\* The content of a.py and b.py: a function definition, then the wildcard
\* imports fs lists for the file.
FileTree(path) ==
    Module(<<FunctionDef(OwnName(path), <<Node("Pass", "", "", <<>>)>>)>>
           \o [i \in 1..Len(fs[path]) |-> StarImport(fs[path][i])])

\* find_spec(module, package) followed by spec.loader.create_module(spec):
\* the names dir(module) lists, when both give something.
find_spec(module) == module \in {"clib", "inert"}
create_module(module) == module = "clib"
dir(module) == {"sin"}

-----------------------------------------------------------------------------
(* get_file_ast, handle_c_libs_importables and the body of                 *)
(* expand_import_star up to the rewriting of node.names.                   *)

Loaded(tree, path) == [kind |-> "tree", tree |-> tree, path |-> path, names |-> {}, cause |-> ""]
Names(names) == [kind |-> "names", tree |-> <<>>, path |-> NoPath, names |-> names, cause |-> ""]
Raised(cause) == [kind |-> "error", tree |-> <<>>, path |-> NoPath, names |-> {}, cause |-> cause]

\* get_file_ast(source, permissions=(os.R_OK,))
get_file_ast(path) ==
    IF path \notin Readable THEN Raised("ReadPermissionError")
    ELSE IF path \notin Parsable THEN Raised("UnparsableFile")
    ELSE Loaded(FileTree(path), path)

handle_c_libs_importables_Lenient(module) ==
    IF find_spec(module) /\ create_module(module) THEN Names(dir(module)) ELSE Names({})

handle_c_libs_importables(module) ==
    IF find_spec(module) /\ create_module(module)
    THEN Names(dir(module))
    ELSE Raised("ModuleNotFoundError")

\* The try block of expand_import_star: the tree to analyze, the names of a
\* module without source, or the exception that becomes
\* UnexpandableImportStar.
Resolve(module, level) ==
    LET module_path == get_import_from_path(Source, module, level)
    IN  IF module_path # NoPath THEN get_file_ast(module_path)
        ELSE handle_c_libs_importables(module)

\* The orders in which a set may be iterated.
Orderings(S) ==
    {o \in [1..Cardinality(S) -> S] : \A i, j \in 1..Cardinality(S) : o[i] = o[j] => i = j}

AstAlias(name) == [name |-> name, asname |-> ""]

RewriteNames_KeepStar(nd, order) ==
    [nd EXCEPT !.names = @ \o [i \in 1..Len(order) |-> AstAlias(order[i])]]

\* node.names.clear(), then one ast.alias(name, asname=None) appended for
\* each name, in the set's iteration order.
RewriteNames(nd, order) ==
    [nd EXCEPT !.names = [i \in 1..Len(order) |-> AstAlias(order[i])]]

UnexpandableImportStar(source, lineno, col_offset, msg) ==
    [kind |-> "UnexpandableImportStar", path |-> source, lineno |-> lineno,
     col_offset |-> col_offset, msg |-> msg]
Returned == [kind |-> "ok", path |-> "", lineno |-> 0, col_offset |-> 0, msg |-> ""]
RecursionError ==
    [kind |-> "RecursionError", path |-> "", lineno |-> 0, col_offset |-> 0, msg |-> ""]
Pending == [kind |-> "none", path |-> "", lineno |-> 0, col_offset |-> 0, msg |-> ""]

-----------------------------------------------------------------------------
(* ImportablesAnalyzer.  A frame is one analyzer at work on one tree: its  *)
(* two private fields, todo, the nodes its pending visit calls will still  *)
(* reach, and file, the path its tree was read from.  Its source field is  *)
(* the importing file in every frame (analyzer.source = source), which is  *)
(* why Resolve always starts from Source.                                  *)

ImportablesAnalyzer_init(tree, path) ==
    [tree |-> tree, file |-> path, stats |-> {}, not_importables |-> {}, todo |-> <<<<>>>>]

Importables_generic_visit(fr, p) == [fr EXCEPT !.todo = ChildPaths(fr.tree, p) \o @]

\* alias.asname if alias.asname else alias.name
BoundName(a) == IF a.aux # "" THEN a.aux ELSE a.id

IsStarImport(nd) == nd.kind = "ImportFrom" /\ nd.kids[1].id = STAR

AddNames_Dropped(stats, names) == stats

\* for alias in node.names: self.__stats.add(name)
AddNames(stats, names) == stats \cup names

Importables_visit_Import(fr, p) ==
    Importables_generic_visit(
        [fr EXCEPT !.stats = AddNames(@, {BoundName(a) : a \in Range(NodeAt(fr.tree, p).kids)})], p)

\* visit_ImportFrom when no analyzer has to be started for the target: the
\* names of the statement, or of a module without source; nothing when the
\* expansion raises UnexpandableImportStar.
Importables_visit_ImportFrom(fr, p) ==
    LET nd == NodeAt(fr.tree, p)
        r == Resolve(nd.id, 0)
    IN  IF ~IsStarImport(nd)
        THEN Importables_generic_visit(
                [fr EXCEPT !.stats = AddNames(@, {BoundName(a) : a \in Range(nd.kids)})], p)
        ELSE IF r.kind = "names"
        THEN [fr EXCEPT !.stats = AddNames(@, r.names)]
        ELSE Importables_generic_visit(fr, p)   \* r.kind = "error": nothing added

\* The targets of the Assign statements among the children of a definition.
AssignTargets(fr, p) ==
    UNION {{Append(Append(p, i), j) : j \in 1..(Len(NodeAt(fr.tree, p).kids[i].kids) - 1)} :
             i \in {k \in 1..Len(NodeAt(fr.tree, p).kids) :
                      NodeAt(fr.tree, p).kids[k].kind = "Assign"}}

Importables_visit_FunctionDef(fr, p) ==
    Importables_generic_visit(
        [fr EXCEPT !.stats = @ \cup {NodeAt(fr.tree, p).id},
                   !.not_importables = @ \cup AssignTargets(fr, p)], p)

Importables_visit_ClassDef(fr, p) ==
    Importables_generic_visit(
        [fr EXCEPT !.stats = @ \cup {NodeAt(fr.tree, p).id},
                   !.not_importables = @ \cup AssignTargets(fr, p)], p)

Importables_visit_Name(fr, p) ==
    Importables_generic_visit(
        IF NodeAt(fr.tree, p).aux = "Store" /\ p \notin fr.not_importables
        THEN [fr EXCEPT !.stats = @ \cup {NodeAt(fr.tree, p).id}]
        ELSE fr, p)

Importables_visit(fr, p) ==
    LET k == NodeAt(fr.tree, p).kind IN
    CASE k = "Import" -> Importables_visit_Import(fr, p)
      [] k = "ImportFrom" -> Importables_visit_ImportFrom(fr, p)
      [] k = "FunctionDef" -> Importables_visit_FunctionDef(fr, p)
      [] k = "ClassDef" -> Importables_visit_ClassDef(fr, p)
      [] k = "Name" -> Importables_visit_Name(fr, p)
      [] OTHER -> Importables_generic_visit(fr, p)

-----------------------------------------------------------------------------
(* SpecImp: either analyzer.visit(tree) on a module tree, or               *)
(* expand_import_star(node, source) on a wildcard import of the importing  *)
(* file.  Nested expansions run as frames of stack.                        *)

\* The depth of nested analyzers the host's recursion limit allows.
MaxDepth == 3

Constant == Node("Constant", "", "", <<>>)
Assign(targets, value) == Node("Assign", "", "", targets \o <<value>>)
Tuple(elts) == Node("Tuple", "", "Store", elts)

AssignedNames == {"x", "y"}

ImpSimpleStmts ==
    {Node("Pass", "", "", <<>>)}
    \cup {Assign(<<NameNode(n, "Store")>>, Constant) : n \in AssignedNames}
    \cup {Assign(<<Tuple(<<NameNode("x", "Store"), NameNode("y", "Store")>>)>>, Constant)}
    \cup {Node("Import", "", "", <<Alias("os", as)>>) : as \in {"", "o"}}
    \cup {Node("ImportFrom", "a", "", <<Alias("fa", as)>>) : as \in {"", "k"}}

ImpCompoundStmts ==
    {FunctionDef("foo", <<s>>) : s \in ImpSimpleStmts}
    \cup {ClassDef("C", <<s>>) : s \in ImpSimpleStmts}
    \cup {If(<<s>>) : s \in ImpSimpleStmts}
    \cup {FunctionDef("foo", <<If(<<s>>)>>) : s \in ImpSimpleStmts}

ImpStmts == ImpSimpleStmts \cup ImpCompoundStmts

ImpTrees ==
    {Module(<<s>>) : s \in ImpStmts} \cup {Module(<<s, t>>) : s \in ImpStmts, t \in ImpStmts}

\* The wildcard imports a target file may hold.
StarLists == SeqsOf({"a", "b", "locked", "clib", "ghost"}, 0, 2)

NoStatement == [module |-> "", level |-> 0, lineno |-> 0, col_offset |-> 0, names |-> <<>>]

\* from <module> import *, at two places of the importing file.
Statements ==
    {[module |-> m, level |-> pos[1], lineno |-> pos[2], col_offset |-> pos[3],
      names |-> <<AstAlias(STAR)>>] : m \in AllModules, pos \in {<<0, 1, 0>>, <<1, 2, 4>>}}

InitVisit ==
    /\ mode = "visit"
    /\ fs = [f \in {"a.py", "b.py"} |-> <<>>]
    /\ node = NoStatement
    /\ node0 = NoStatement
    /\ \E t \in ImpTrees : stack = <<ImportablesAnalyzer_init(t, Source)>>
    /\ ex_pc = "run"

InitExpand ==
    /\ mode = "expand"
    /\ fs \in [{"a.py", "b.py"} -> StarLists]
    /\ node \in Statements
    /\ node0 = node
    /\ stack = <<>>
    /\ ex_pc = "call"

InitImp ==
    /\ InitVisit \/ InitExpand
    /\ importables = {}
    /\ outcome = Pending
    /\ SeIdle /\ PrIdle

Top == stack[Len(stack)]

\* The next node the innermost analyzer visits is a wildcard import whose
\* target file loads: expand_import_star starts an analyzer on it.
EntersFile ==
    /\ stack # <<>>
    /\ Top.todo # <<>>
    /\ IsStarImport(NodeAt(Top.tree, Head(Top.todo)))
    /\ Resolve(NodeAt(Top.tree, Head(Top.todo)).id, 0).kind = "tree"

\* expand_import_star(node, source), the target cannot be expanded.
ExpandRaises ==
    /\ mode = "expand" /\ ex_pc = "call"
    /\ \E r \in {Resolve(node.module, node.level)} :
        /\ r.kind = "error"
        /\ outcome' = UnexpandableImportStar(Source, node.lineno, node.col_offset, r.cause)
    /\ ex_pc' = "done"
    /\ UNCHANGED <<fs, mode, node, node0, stack, importables, seVars, prVars>>

\* expand_import_star(node, source), the target has no source.
ExpandNoSource ==
    /\ mode = "expand" /\ ex_pc = "call"
    /\ \E r \in {Resolve(node.module, node.level)} :
        /\ r.kind = "names"
        /\ importables' = r.names
        /\ \E order \in Orderings(r.names) : node' = RewriteNames(node, order)
    /\ outcome' = Returned
    /\ ex_pc' = "done"
    /\ UNCHANGED <<fs, mode, node0, stack, seVars, prVars>>

\* expand_import_star(node, source), the target file loads: analyzer.visit(tree).
ExpandEnter ==
    /\ mode = "expand" /\ ex_pc = "call"
    /\ \E r \in {Resolve(node.module, node.level)} :
        /\ r.kind = "tree"
        /\ stack' = <<ImportablesAnalyzer_init(r.tree, r.path)>>
    /\ ex_pc' = "run"
    /\ UNCHANGED <<fs, mode, node, node0, importables, outcome, seVars, prVars>>

\* The innermost analyzer visits its next node.
AnalyzerStep ==
    /\ ex_pc = "run"
    /\ stack # <<>> /\ Top.todo # <<>>
    /\ ~EntersFile
    /\ stack' = [stack EXCEPT ![Len(stack)] =
                    Importables_visit([Top EXCEPT !.todo = Tail(@)], Head(Top.todo))]
    /\ UNCHANGED <<fs, mode, node, node0, importables, ex_pc, outcome, seVars, prVars>>

\* visit_ImportFrom calls expand_import_star, which starts an analyzer on
\* the target's tree.
NestedExpand ==
    /\ ex_pc = "run"
    /\ EntersFile
    /\ Len(stack) < MaxDepth
    /\ \E r \in {Resolve(NodeAt(Top.tree, Head(Top.todo)).id, 0)} :
        stack' = Append([stack EXCEPT ![Len(stack)].todo = Tail(@)],
                        ImportablesAnalyzer_init(r.tree, r.path))
    /\ UNCHANGED <<fs, mode, node, node0, importables, ex_pc, outcome, seVars, prVars>>

\* The same call when the recursion limit is reached: RecursionError, which
\* no frame catches.
RecursionLimit ==
    /\ ex_pc = "run"
    /\ EntersFile
    /\ Len(stack) >= MaxDepth
    /\ stack' = <<>>
    /\ outcome' = RecursionError
    /\ ex_pc' = "done"
    /\ UNCHANGED <<fs, mode, node, node0, importables, seVars, prVars>>

\* A nested expand_import_star returns: the caller's visit_ImportFrom adds
\* the names of the expanded statement.
ReturnNested ==
    /\ ex_pc = "run"
    /\ Len(stack) > 1 /\ Top.todo = <<>>
    /\ stack' = [SubSeq(stack, 1, Len(stack) - 1) EXCEPT
                    ![Len(stack) - 1].stats = AddNames(@, Top.stats)]
    /\ UNCHANGED <<fs, mode, node, node0, importables, ex_pc, outcome, seVars, prVars>>

\* The outermost expand_import_star returns the rewritten statement.
ReturnExpand ==
    /\ ex_pc = "run" /\ mode = "expand"
    /\ Len(stack) = 1 /\ Top.todo = <<>>
    /\ importables' = Top.stats
    /\ \E order \in Orderings(Top.stats) : node' = RewriteNames(node, order)
    /\ stack' = <<>>
    /\ outcome' = Returned
    /\ ex_pc' = "done"
    /\ UNCHANGED <<fs, mode, node0, seVars, prVars>>

\* analyzer.visit(tree) is over: get_stats().
VisitReturns ==
    /\ ex_pc = "run" /\ mode = "visit"
    /\ Len(stack) = 1 /\ Top.todo = <<>>
    /\ importables' = Top.stats
    /\ outcome' = Returned
    /\ ex_pc' = "done"
    /\ UNCHANGED <<fs, mode, node, node0, stack, seVars, prVars>>

NextImp ==
    \/ ExpandRaises
    \/ ExpandNoSource
    \/ ExpandEnter
    \/ AnalyzerStep
    \/ NestedExpand
    \/ RecursionLimit
    \/ ReturnNested
    \/ ReturnExpand
    \/ VisitReturns

\* The calls are sequential: a call that can take its next step takes it.
SpecImp == InitImp /\ [][NextImp]_vars /\ WF_vars(NextImp)

-----------------------------------------------------------------------------
(* Claims about the wildcard expander.                                     *)

Files == {"a.py", "b.py"}
Loads(path) == path \in Readable \cap Parsable

\* The files the wildcard imports of file f lead to.
Edges(f) == {g \in {get_import_from_path(Source, m, 0) : m \in Range(fs[f])} : Loads(g)}

RECURSIVE ReachFrom(_, _)
ReachFrom(S, k) ==
    IF k = 0 THEN S ELSE ReachFrom(S \cup UNION {Edges(f) : f \in S}, k - 1)

\* The files of the chain of wildcard imports that starts at file f.
Chain(f) == ReachFrom({f}, Cardinality(Files))

\* Some file of the chain is reached again from itself.
Cyclic(f) == \E g \in Chain(f) : g \in ReachFrom(Edges(g), Cardinality(Files))

Introspectable(m) ==
    get_import_from_path(Source, m, 0) = NoPath /\ find_spec(m) /\ create_module(m)

\* The names of a whole chain: what each file defines, and what its wildcard
\* imports of modules without source bring in.
ChainNames(f) ==
    UNION {{OwnName(g)} \cup UNION {dir(m) : m \in {k \in Range(fs[g]) : Introspectable(k)}} :
             g \in Chain(f)}

TargetPath == get_import_from_path(Source, node0.module, node0.level)

ExpandOver == mode = "expand" /\ ex_pc = "done"

AliasNames(nd) == {nd.names[i].name : i \in 1..Len(nd.names)}

\* C4: after a successful expansion the statement holds exactly one alias,
\* without rename, per name of the set obtained for the target, no `*`, and
\* its module, level, line and column are those it had before.
C4_ExpandedStatement ==
    (ExpandOver /\ outcome.kind = "ok") =>
        /\ AliasNames(node) = importables
        /\ Len(node.names) = Cardinality(importables)
        /\ \A i \in 1..Len(node.names) :
              node.names[i].asname = "" /\ node.names[i].name # STAR
        /\ Introspectable(node0.module) => importables = dir(node0.module)
        /\ node.module = node0.module
        /\ node.level = node0.level
        /\ node.lineno = node0.lineno
        /\ node.col_offset = node0.col_offset

C4_Witness ==
    /\ ExpandOver /\ outcome.kind = "ok"
    /\ Cardinality(importables) = 3
    /\ node0.level = 1

\* The target of the statement cannot be expanded: its file cannot be read
\* or parsed, or it has no source and cannot be found or instantiated.
TargetUnexpandable ==
    IF TargetPath # NoPath THEN ~Loads(TargetPath) ELSE ~Introspectable(node0.module)

\* C5: when the target cannot be expanded the call fails with
\* UnexpandableImportStar carrying the importing file and the statement's
\* line and column, and the statement is left as it was.
C5_FailureLeavesStatement ==
    (ExpandOver /\ TargetUnexpandable) =>
        /\ outcome.kind = "UnexpandableImportStar"
        /\ outcome.path = Source
        /\ outcome.lineno = node0.lineno
        /\ outcome.col_offset = node0.col_offset
        /\ node = node0
        /\ node.names = <<AstAlias(STAR)>>

C5_Witness ==
    /\ ExpandOver /\ outcome.kind = "UnexpandableImportStar"
    /\ node0.module = "ghost" /\ node0.lineno = 2 /\ node = node0

\* A file is being analyzed by two of the nested analyzers.
FileReachedAgain ==
    \E i, j \in 1..Len(stack) : i < j /\ stack[i].file = stack[j].file

C10_Result ==
    /\ (ExpandOver /\ Loads(TargetPath) /\ ~Cyclic(TargetPath)) =>
            /\ outcome.kind = "ok"
            /\ AliasNames(node) = ChainNames(TargetPath)
    /\ (ExpandOver /\ Loads(TargetPath) /\ Cyclic(TargetPath)) =>
            /\ outcome.kind = "RecursionError"
            /\ node = node0
    /\ (mode = "expand" /\ FileReachedAgain) => Cyclic(TargetPath)

\* C10: the recursive expansion terminates; over a chain of wildcard imports
\* without a cycle it returns the names of the whole chain, and over a
\* cyclic chain it fails and returns no name list.
C10_RecursiveExpansion == <>(ex_pc = "done") /\ []C10_Result

C10_Witness ==
    /\ ExpandOver /\ Loads(TargetPath) /\ Cyclic(TargetPath)
    /\ Chain(TargetPath) = Files
    /\ outcome.kind = "RecursionError"

-----------------------------------------------------------------------------
(* Claim about the Importable-Names Resolver.                              *)

VisitedTree == stack[1].tree

KindPaths(kinds) == {p \in Paths(VisitedTree) : NodeAt(VisitedTree, p).kind \in kinds}

StorePaths == {p \in KindPaths({"Name"}) : NodeAt(VisitedTree, p).aux = "Store"}

InsideDefinition(p) ==
    \E k \in 0..(Len(p) - 1) :
        NodeAt(VisitedTree, SubSeq(p, 1, k)).kind \in {"FunctionDef", "ClassDef"}

\* p lies in a target of an assignment that is a direct child of a function
\* or class body.
InDefinitionAssignTarget(p) ==
    \E k \in 1..(Len(p) - 1) :
        /\ NodeAt(VisitedTree, SubSeq(p, 1, k)).kind = "Assign"
        /\ NodeAt(VisitedTree, SubSeq(p, 1, k - 1)).kind \in {"FunctionDef", "ClassDef"}
        /\ p[k + 1] < Len(NodeAt(VisitedTree, SubSeq(p, 1, k)).kids)

DefinedNames == {NodeAt(VisitedTree, p).id : p \in KindPaths({"FunctionDef", "ClassDef"})}
ImportedNames == {BoundName(NodeAt(VisitedTree, p)) : p \in KindPaths({"alias"})}

OnlyDefinitionLocal(n) ==
    /\ n \notin DefinedNames \cup ImportedNames
    /\ \E p \in StorePaths : NodeAt(VisitedTree, p).id = n
    /\ \A p \in StorePaths : NodeAt(VisitedTree, p).id = n => InDefinitionAssignTarget(p)

\* C6: the resolver's set holds every function and class name, every name
\* an import alias binds and every store name outside function and class
\* bodies, and no name bound only by assignments that are direct children
\* of a function or class body; `def foo(): pass` with `x = 1` gives
\* {foo, x}.
C6_ImportableNames ==
    (mode = "visit" /\ ex_pc = "done") =>
        /\ DefinedNames \subseteq importables
        /\ ImportedNames \subseteq importables
        /\ \A p \in StorePaths :
              ~InsideDefinition(p) => NodeAt(VisitedTree, p).id \in importables
        /\ \A n \in AssignedNames : OnlyDefinitionLocal(n) => n \notin importables
        /\ VisitedTree = Module(<<FunctionDef("foo", <<Node("Pass", "", "", <<>>)>>),
                                  Assign(<<NameNode("x", "Store")>>, Constant)>>)
              => importables = {"foo", "x"}

=============================================================================
